---- MODULE Spec2Model ----
(***************************************************************************)
(* A model of lokiservice.js (src/unnamed/part_000), the service layer     *)
(* that hosts loki database instances behind a callback-first interface,   *)
(* together with the example initializer src/example/demo1-service.init.js.*)
(*                                                                         *)
(* The service keeps a registry of database instances keyed by             *)
(* (initializer module name, filename), creates an instance on first use   *)
(* through the initializer's asynchronous init, routes each exported       *)
(* operation to the instance and counts it in a global and a per-instance  *)
(* statistics bucket.                                                      *)
(*                                                                         *)
(* Every exported function is one action.  The completion callback that    *)
(* the initializer invokes later is a separate action, InitCallback: it    *)
(* is the only place where the program suspends.                           *)
(*                                                                         *)
(* lokijs itself is an external library; of it the model keeps one         *)
(* collection ("users") per database with its documents and maxId, the     *)
(* names of its transforms and dynamic views, and a count of close calls.  *)
(* Elapsed times are not numbers here: stopTiming records which call's     *)
(* start instant it measured from.                                         *)
(***************************************************************************)
EXTENDS Integers, Sequences, FiniteSets, TLC

VARIABLES
    identOrder,     \* keys of databaseRegistry, in insertion order
    pathOrder,      \* keys of databaseRegistry[ident], in insertion order
    registry,       \* databaseRegistry[ident][path]: {instance, stats}
    requestStats,   \* serviceStats.requestStats
    instanceNames,  \* serviceStats.instanceNames
    started,        \* the module variable `started` (the call that set it)
    db,             \* the initializer module's variable `db`, per module
    stores,         \* every loki instance constructed so far
    pending,        \* the calls whose initializer callback is outstanding
    nCalls,         \* how many exported functions have been called
    initCalls,      \* how often init was invoked, per (module, filename)
    last            \* the call that the last step returned from or completed

vars == <<identOrder, pathOrder, registry, requestStats, instanceNames,
          started, db, stores, pending, nCalls, initCalls, last>>

(***************************************************************************)
(* Bounds of the model.                                                    *)
(***************************************************************************)
\* calls of exported functions in one run
MaxCalls == 4
\* of them, in the specifications of the single operations
MaxOps == 3

(***************************************************************************)
(* Names.                                                                  *)
(***************************************************************************)
\* initializer modules that require() can load
Modules == {"A", "B"}
\* a module name that require() cannot resolve
MissingModule == "missing"
Idents == Modules \cup {MissingModule}
Paths == {"p1", "p2"}
Keys == Idents \X Paths

Kinds == {"get", "find", "insert", "update", "remove", "transform", "dynamicView"}
StatFields == Kinds \cup {"total"}

Range(s) == {s[i] : i \in DOMAIN s}

(***************************************************************************)
(* JavaScript values.  An object is a function from its property names;    *)
(* an argument is {type, ok, v}: a native value v, or a string that        *)
(* JSON.parse turns into v (ok) or rejects (~ok).                          *)
(***************************************************************************)
EmptyObj == [x \in {} |-> 0]

Obj(v) == [type |-> "object", ok |-> TRUE, v |-> v]
Str(v) == [type |-> "string", ok |-> TRUE, v |-> v]
BadStr == [type |-> "string", ok |-> FALSE, v |-> EmptyObj]
Undefined == [type |-> "undefined", ok |-> TRUE, v |-> EmptyObj]

\* a JavaScript value is truthy unless undefined (or the empty string, not used)
Truthy(a) == a.type # "undefined"

\* delete obj[k]
Delete(obj, k) == [x \in DOMAIN obj \ {k} |-> obj[x]]

\* Object.assign(target, source)
ObjectAssign(target, source) ==
    [x \in DOMAIN target \cup DOMAIN source |->
        IF x \in DOMAIN source THEN source[x] ELSE target[x]]

\* parseInt(s, 10) on the id strings the model uses; -1 stands for NaN
parseInt(s) ==
    CASE s = "1" -> 1
      [] s = "2" -> 2
      [] s = "9" -> 9
      [] OTHER -> -1

(***************************************************************************)
(* The loki database built by the example initializer.                     *)
(***************************************************************************)
NoColl == [exists |-> FALSE, docs |-> EmptyObj, maxId |-> 0]

\* users.insert(...) of seedDatabase, cut to two documents and two properties
SeedUsers ==
    [exists |-> TRUE,
     docs |-> (1 :> (("$loki" :> 1) @@ ("meta" :> "store") @@ ("age" :> 35) @@ ("tags" :> "storms")))
           @@ (2 :> (("$loki" :> 2) @@ ("meta" :> "store") @@ ("age" :> 30) @@ ("tags" :> "golden"))),
     maxId |-> 2]

\* users.setTransform(...)
TransformNames == {"goddesses", "knowlege"}
\* users.addDynamicView(...)
ViewNames == {"Youngsters"}

\* new loki(filename, {autoload: true, ...}): no collection before the seed
NewStore == [users |-> NoColl, closeCalls |-> 0]

\* seedDatabase(): adds and fills the collection only when it is missing
seedDatabase(st) ==
    IF st.users.exists THEN st ELSE [st EXCEPT !.users = SeedUsers]

\* db.getCollection(name): null for an unknown name
getCollection(st, name) == IF name = "users" THEN st.users ELSE NoColl

\* coll.get(id): the document, or null (the empty sequence)
collGet(coll, id) == IF id \in DOMAIN coll.docs THEN <<coll.docs[id]>> ELSE <<>>

\* coll.insert(obj): refuses an object that already carries an identity;
\* otherwise the store assigns the next identity and its own meta
collInsert(coll, obj) ==
    LET id == coll.maxId + 1
        doc == ObjectAssign(obj, ("$loki" :> id) @@ ("meta" :> "store"))
    IN IF "$loki" \in DOMAIN obj
       THEN [ok |-> FALSE, coll |-> coll, doc |-> obj]
       ELSE [ok |-> TRUE,
             coll |-> [coll EXCEPT !.docs = (id :> doc) @@ coll.docs, !.maxId = id],
             doc |-> doc]

\* coll.find(query): the documents whose properties equal the query's
collFind(coll, query) ==
    {i \in DOMAIN coll.docs :
        \A f \in DOMAIN query :
            f \in DOMAIN coll.docs[i] /\ coll.docs[i][f] = query[f]}

\* coll.update(doc): writes the document back under its identity
collUpdate(coll, doc) ==
    [coll EXCEPT !.docs = [i \in DOMAIN coll.docs |->
                             IF i = doc["$loki"] THEN doc ELSE coll.docs[i]]]

\* coll.remove(doc): drops the document with that identity
collRemove(coll, id) ==
    [coll EXCEPT !.docs = [i \in DOMAIN coll.docs \ {id} |-> coll.docs[i]]]

(***************************************************************************)
(* The outcome of the body that an operation hands to getDatabase: an      *)
(* error kind ("none" when it reaches its callback), the database after    *)
(* it, and the result that it serializes.                                  *)
(***************************************************************************)
Ok(st, result, passed) ==
    [error |-> "none", store |-> st, result |-> result, passed |-> passed]
Throw(kind, st) ==
    [error |-> kind, store |-> st, result |-> <<>>, passed |-> <<>>]

\* JSON.stringify(result); JSON text is modelled by the value it denotes
JSONstringify(result) == Str(result)

(***************************************************************************)
(* The process* functions: what each does with the database once           *)
(* getDatabase has handed it over.                                         *)
(***************************************************************************)
\* processGet, lines 113-119
processGet(st, collection, id) ==
    LET n == IF id.type = "string" THEN parseInt(id.str) ELSE id.num
        coll == getCollection(st, collection)
    IN IF ~coll.exists THEN Throw("CollectionNotFound", st)
       ELSE Ok(st, collGet(coll, n), <<"get", n>>)

\* processFind, lines 131-137
processFind(st, collection, query) ==
    IF query.type = "string" /\ ~query.ok THEN Throw("MalformedInput", st)
    ELSE LET coll == getCollection(st, collection)
         IN IF ~coll.exists THEN Throw("CollectionNotFound", st)
            ELSE Ok(st, <<collFind(coll, query.v)>>, <<"find", query.v>>)

\* the payload as it would be if a zero identity were left in place
InsertPayloadKeepZero(obj) ==
    IF "meta" \in DOMAIN obj THEN Delete(obj, "meta") ELSE obj

\* the payload that processInsert hands to insert(), lines 154-161
InsertPayload(obj) ==
    LET o1 == IF "$loki" \in DOMAIN obj /\ obj["$loki"] = 0
              THEN Delete(obj, "$loki") ELSE obj
    IN IF "meta" \in DOMAIN o1 THEN Delete(o1, "meta") ELSE o1

\* processInsert, lines 150-165
processInsert(st, collection, obj) ==
    IF obj.type = "string" /\ ~obj.ok THEN Throw("MalformedInput", st)
    ELSE LET o == InsertPayload(obj.v)
             coll == getCollection(st, collection)
         IN IF ~coll.exists THEN Throw("CollectionNotFound", st)
            ELSE LET r == collInsert(coll, o)
                 IN IF ~r.ok
                    THEN [Throw("StoreRejected", st) EXCEPT !.passed = <<"insert", o>>]
                    ELSE Ok([st EXCEPT !.users = r.coll], <<r.doc>>, <<"insert", o>>)

\* the payload that processUpdate merges, lines 183-185
UpdatePayload(obj) ==
    IF "meta" \in DOMAIN obj THEN Delete(obj, "meta") ELSE obj

\* the merge as it would be if the payload replaced the document
MergeReplace(doc, obj) == obj

\* the merge of processUpdate, line 191
Merge(doc, obj) == ObjectAssign(doc, obj)

\* processUpdate, lines 178-196
processUpdate(st, collection, obj) ==
    IF obj.type = "string" /\ ~obj.ok THEN Throw("MalformedInput", st)
    ELSE LET o == UpdatePayload(obj.v)
             coll == getCollection(st, collection)
         IN IF ~coll.exists THEN Throw("CollectionNotFound", st)
            ELSE LET found == IF "$loki" \in DOMAIN o
                              THEN collGet(coll, o["$loki"]) ELSE <<>>
                 IN IF found = <<>> THEN Throw("RecordNotFound", st)
                    ELSE LET doc == Merge(found[1], o)
                         IN Ok([st EXCEPT !.users = collUpdate(coll, doc)],
                               <<doc>>, <<"update", doc>>)

\* processRemove, lines 209-217
processRemove(st, collection, obj) ==
    IF obj.type = "string" /\ ~obj.ok THEN Throw("MalformedInput", st)
    ELSE LET o == obj.v
             coll == getCollection(st, collection)
         IN IF ~coll.exists THEN Throw("CollectionNotFound", st)
            ELSE IF "$loki" \notin DOMAIN o THEN Throw("StoreRejected", st)
            ELSE IF o["$loki"] \notin DOMAIN coll.docs
                 THEN Ok(st, <<"val", <<>>>>, <<"remove", o>>)
                 ELSE Ok([st EXCEPT !.users = collRemove(coll, o["$loki"])],
                         <<"val", <<o["$loki"]>>>>, <<"remove", o>>)

\* processTransform, lines 232-238: before getDatabase
transformDataInvoke(dataInvoke) ==
    IF dataInvoke = "undefined" \/ dataInvoke = "null" THEN "true" ELSE dataInvoke

processTransformBefore(transformParams) ==
    IF Truthy(transformParams) /\ ~transformParams.ok THEN "MalformedInput" ELSE "none"

\* processTransform, lines 241-247; transform is a name or a list of steps
processTransform(st, collection, transform, transformParams, dataInvoke) ==
    LET coll == getCollection(st, collection)
        params == IF Truthy(transformParams) THEN <<transformParams.v>> ELSE <<>>
    IN IF ~coll.exists THEN Throw("CollectionNotFound", st)
       ELSE IF transform.named /\ transform.name \notin TransformNames
            THEN Throw("InvalidTransform", st)
       ELSE Ok(st,
               <<"chain", transform>>
                  \o (IF transformDataInvoke(dataInvoke) = "true" THEN <<"data">> ELSE <<>>),
               <<"chain", transform, params>>)

\* the name that processDynamicView passes to branchResultset, line 270
BranchName(transformName) == "transformName"

\* processDynamicView, lines 263-276; names are strings, "" when not given
processDynamicView(st, collection, viewname, transformName, transformParams) ==
    IF Truthy(transformParams) /\ ~transformParams.ok THEN Throw("MalformedInput", st)
    ELSE LET coll == getCollection(st, collection)
             params == IF Truthy(transformParams) THEN <<transformParams.v>> ELSE <<>>
         IN IF ~coll.exists THEN Throw("CollectionNotFound", st)
            ELSE IF viewname \notin ViewNames THEN Throw("ViewNotFound", st)
            ELSE IF transformName # ""
                 THEN IF BranchName(transformName) \notin TransformNames
                      THEN Throw("InvalidTransform", st)
                      ELSE Ok(st, <<"view", viewname, "branch", BranchName(transformName), "data">>,
                              <<"branchResultset", BranchName(transformName), params>>)
                 ELSE Ok(st, <<"view", viewname, "data">>, <<"data">>)

\* processDynamicViewTransform, lines 296-304: before getDatabase.
\* rawTransform is truthy here; line 300 assigns to a misspelt name, so the
\* params are neither parsed nor cleared when no transform name is given.
processDynamicViewTransformBefore(transformName, transformParams, rawTransform) ==
    IF ~rawTransform.ok THEN "MalformedInput"
    ELSE IF transformName # "" /\ Truthy(transformParams) /\ ~transformParams.ok
         THEN "MalformedInput"
         ELSE "none"

\* processDynamicViewTransform, lines 306-312
processDynamicViewTransform(st, collection, viewname, transformName, transformParams, rawTransform) ==
    LET coll == getCollection(st, collection)
        params == IF Truthy(transformParams) THEN <<transformParams.v>> ELSE <<>>
    IN IF ~coll.exists THEN Throw("CollectionNotFound", st)
       ELSE IF viewname \notin ViewNames THEN Throw("ViewNotFound", st)
       ELSE IF transformName # "" /\ transformName \notin TransformNames
            THEN Throw("InvalidTransform", st)
       ELSE Ok(st, <<"view", viewname, "branch", transformName, "transform", "data">>,
               <<"branchResultset", transformName, params>>)

Named(name) == [named |-> TRUE, name |-> name, steps |-> EmptyObj]
Raw(steps) == [named |-> FALSE, name |-> "", steps |-> steps]

(***************************************************************************)
(* The exported functions, lines 343-433.  A request is                    *)
(* {op, ident, path, collection, a}, a holding the operation's own         *)
(* parameters.                                                             *)
(***************************************************************************)
\* the statName that the exported function passes to stopTiming
StatName(op) ==
    CASE op = "transformRaw" -> "transform"
      [] op = "dynamicViewTransform" -> "dynamicView"
      [] OTHER -> op

\* what runs before getDatabase is called: "none", or the error thrown
Before(req) ==
    CASE req.op = "transform" -> processTransformBefore(req.a.transformParams)
      [] req.op = "transformRaw" ->
            IF ~req.a.transform.ok THEN "MalformedInput"
            ELSE processTransformBefore(req.a.transformParams)
      [] req.op = "dynamicViewTransform" ->
            IF Truthy(req.a.rawTransform)
            THEN processDynamicViewTransformBefore(
                     req.a.transformName, req.a.transformParams, req.a.rawTransform)
            ELSE "none"
      [] OTHER -> "none"

\* the callback that the operation passes to getDatabase, run on database st
Body(req, st) ==
    CASE req.op = "get" -> processGet(st, req.collection, req.a.id)
      [] req.op = "find" -> processFind(st, req.collection, req.a.query)
      [] req.op = "insert" -> processInsert(st, req.collection, req.a.obj)
      [] req.op = "update" -> processUpdate(st, req.collection, req.a.obj)
      [] req.op = "remove" -> processRemove(st, req.collection, req.a.obj)
      [] req.op = "transform" ->
            processTransform(st, req.collection, Named(req.a.transform),
                             req.a.transformParams, req.a.dataInvoke)
      [] req.op = "transformRaw" ->
            processTransform(st, req.collection, Raw(req.a.transform.v),
                             req.a.transformParams, req.a.dataInvoke)
      [] req.op = "dynamicView" ->
            processDynamicView(st, req.collection, req.a.viewname,
                               req.a.transformName, req.a.transformParams)
      [] req.op = "dynamicViewTransform" ->
            IF Truthy(req.a.rawTransform)
            THEN processDynamicViewTransform(st, req.collection, req.a.viewname,
                     req.a.transformName, req.a.transformParams, req.a.rawTransform)
            ELSE processDynamicView(st, req.collection, req.a.viewname,
                                    req.a.transformName, req.a.transformParams)

ZeroStats == [f \in StatFields |-> 0]
NoEntry == [present |-> FALSE, instance |-> 0, stats |-> ZeroStats]

\* the stats block of a new registry entry, lines 88-105
FreshStats(old) == ZeroStats

\* lines 328-331 and 333-336: one bucket's counters after stopTiming
Bump(s, statName) ==
    [f \in StatFields |-> IF f = "total" \/ f = statName THEN s[f] + 1 ELSE s[f]]

\* stopTiming, lines 323-337: the global bucket
stopTimingGlobal(rs, statName) == Bump(rs, statName)

\* stopTiming, lines 323-337: the bucket of databaseRegistry[serviceName][filename]
stopTimingEntry(reg, statName, k) ==
    [reg EXCEPT ![k].stats = Bump(@, statName)]

\* the counters as they would be seen if the callback ran before stopTiming
SeenByCallbackEarly(rs, statName) == rs

\* lines 346-348 (and the like in each exported function): stopTiming runs,
\* then callback(null, response); the counters that the callback finds
SeenByCallback(rs, statName) == stopTimingGlobal(rs, statName)

\* the record kept of one call of an exported function
NewCall(id, req) ==
    [id |-> id, op |-> req.op, ident |-> req.ident, path |-> req.path,
     collection |-> req.collection, a |-> req.a,
     status |-> "pending",  \* pending | returned | thrown (to the caller) |
                            \* uncaught (thrown inside the initializer's callback)
     error |-> "none",      \* what was thrown
     init |-> 0,            \* the instance that init constructed for this call
     inst |-> 0,            \* the instance that the operation ran against
     cbCount |-> 0,         \* how often the caller's callback was invoked
     response |-> <<>>,     \* what it was invoked with, after the null
     timedFrom |-> 0,       \* the call whose start instant stopTiming used
     passed |-> <<>>,       \* what the store call received
     seenTotal |-> 0,       \* totalRequests when the caller's callback ran
     closed |-> <<>>]       \* shutdown: the instances closed, in order

\* line 76: databaseRegistry[serviceName] = databaseRegistry[serviceName] || {}
Touch(order, ident) ==
    IF ident \in Range(order) THEN order ELSE Append(order, ident)

\* the test as it would be if no entry were ever found
isRegisteredNever(reg, k) == FALSE

\* line 79: if (databaseRegistry[serviceName][filename])
isRegistered(reg, k) == reg[k].present

\* require as it would be if every module name resolved
requireAny(serviceName) == TRUE

\* require(serviceName), line 84: whether the module resolves; it throws
\* when it does not
require(serviceName) == serviceName \in Modules

\* An exported operation from startTiming to its return: synchronous to the
\* end when the key is registered, otherwise up to the call of init.
Invoke(req) ==
    LET c == nCalls + 1
        k == <<req.ident, req.path>>
        pre == Before(req)
        call == NewCall(c, req)
    IN
    /\ nCalls < MaxCalls
    /\ nCalls' = c
    /\ started' = c
    /\ UNCHANGED <<pathOrder, instanceNames>>
    /\ IF pre # "none"
       THEN /\ last' = [call EXCEPT !.status = "thrown", !.error = pre]
            /\ UNCHANGED <<identOrder, registry, requestStats, db, stores,
                           pending, initCalls>>
       ELSE
       /\ identOrder' = Touch(identOrder, req.ident)
       /\ IF isRegistered(registry, k)
          THEN LET i == registry[k].instance
                   out == Body(req, stores[i])
               IN /\ UNCHANGED <<db, pending, initCalls>>
                  /\ IF out.error # "none"
                     THEN /\ last' = [call EXCEPT !.status = "thrown",
                                         !.error = out.error, !.inst = i,
                                         !.passed = out.passed]
                          /\ UNCHANGED <<registry, requestStats, stores>>
                     ELSE /\ stores' = [stores EXCEPT ![i] = out.store]
                          /\ requestStats' = stopTimingGlobal(requestStats, StatName(req.op))
                          /\ registry' = stopTimingEntry(registry, StatName(req.op), k)
                          /\ last' = [call EXCEPT !.status = "returned",
                                   !.inst = i, !.cbCount = 1,
                                   !.response = <<JSONstringify(out.result)>>,
                                   !.timedFrom = c, !.passed = out.passed,
                                   !.seenTotal =
                                       SeenByCallback(requestStats, StatName(req.op))["total"]]
          ELSE IF ~require(req.ident)
          THEN /\ last' = [call EXCEPT !.status = "thrown",
                                       !.error = "InitializerNotFound"]
               /\ UNCHANGED <<registry, requestStats, db, stores, pending, initCalls>>
          ELSE /\ stores' = Append(stores, NewStore)
               /\ db' = [db EXCEPT ![req.ident] = Len(stores) + 1]
               /\ initCalls' = [initCalls EXCEPT ![k] = @ + 1]
               /\ pending' = (c :> [call EXCEPT !.init = Len(stores) + 1]) @@ pending
               /\ last' = [call EXCEPT !.init = Len(stores) + 1]
               /\ UNCHANGED <<registry, requestStats>>

\* The initializer's completion callback for the pending call
\* (demo1-service.init.js lines 31-35) and, in it, getDatabase's callback
\* (lines 85-108) with the operation's body.
InitCallback(c) ==
    LET call == pending[c]
        k == <<call.ident, call.path>>
        i == db[call.ident]
        seeded == seedDatabase(stores[i])
        reg1 == [registry EXCEPT ![k] = [present |-> TRUE, instance |-> i,
                                         stats |-> FreshStats(registry[k].stats)]]
        out == Body(call, seeded)
    IN
    /\ pending' = [x \in DOMAIN pending \ {c} |-> pending[x]]
    /\ pathOrder' = [pathOrder EXCEPT ![call.ident] = Touch(@, call.path)]
    /\ UNCHANGED <<identOrder, instanceNames, started, db, nCalls, initCalls>>
    /\ IF out.error # "none"
       THEN /\ registry' = reg1
            /\ stores' = [stores EXCEPT ![i] = seeded]
            /\ last' = [call EXCEPT !.status = "uncaught",
                                    !.error = out.error, !.inst = i,
                                    !.passed = out.passed]
            /\ UNCHANGED requestStats
       ELSE /\ stores' = [stores EXCEPT ![i] = out.store]
            /\ requestStats' = stopTimingGlobal(requestStats, StatName(call.op))
            /\ registry' = stopTimingEntry(reg1, StatName(call.op), k)
            /\ last' = [call EXCEPT !.status = "returned",
                              !.inst = i, !.cbCount = 1,
                              !.response = <<JSONstringify(out.result)>>,
                              !.timedFrom = started, !.passed = out.passed,
                              !.seenTotal =
                                  SeenByCallback(requestStats, StatName(call.op))["total"]]

(***************************************************************************)
(* The exported operations.                                                *)
(***************************************************************************)
Request(op, ident, path, collection, a) ==
    [op |-> op, ident |-> ident, path |-> path, collection |-> collection, a |-> a]

get(ident, path, collection, id) ==
    Invoke(Request("get", ident, path, collection, [id |-> id]))

find(ident, path, collection, query) ==
    Invoke(Request("find", ident, path, collection, [query |-> query]))

insert(ident, path, collection, obj) ==
    Invoke(Request("insert", ident, path, collection, [obj |-> obj]))

update(ident, path, collection, obj) ==
    Invoke(Request("update", ident, path, collection, [obj |-> obj]))

remove(ident, path, collection, obj) ==
    Invoke(Request("remove", ident, path, collection, [obj |-> obj]))

transform(ident, path, collection, name, transformParams, dataInvoke) ==
    Invoke(Request("transform", ident, path, collection,
                   [transform |-> name, transformParams |-> transformParams,
                    dataInvoke |-> dataInvoke]))

transformRaw(ident, path, collection, text, transformParams, dataInvoke) ==
    Invoke(Request("transformRaw", ident, path, collection,
                   [transform |-> text, transformParams |-> transformParams,
                    dataInvoke |-> dataInvoke]))

dynamicView(ident, path, collection, viewname, transformName, transformParams) ==
    Invoke(Request("dynamicView", ident, path, collection,
                   [viewname |-> viewname, transformName |-> transformName,
                    transformParams |-> transformParams]))

dynamicViewTransform(ident, path, collection, viewname, transformName, transformParams, rawTransform) ==
    Invoke(Request("dynamicViewTransform", ident, path, collection,
                   [viewname |-> viewname, transformName |-> transformName,
                    transformParams |-> transformParams,
                    rawTransform |-> rawTransform]))

(***************************************************************************)
(* Introspection and shutdown, lines 435-514.                              *)
(***************************************************************************)
RECURSIVE PairsOf(_, _)
\* for (instName in databaseRegistry[initName]): the pairs of one module
PairsOf(ident, paths) ==
    IF paths = <<>> THEN <<>>
    ELSE <<<<ident, Head(paths)>>>> \o PairsOf(ident, Tail(paths))

\* the enumeration as it would be if it stopped after the first module
AllEntriesOfFirst(idents, order) ==
    IF idents = <<>> THEN <<>> ELSE PairsOf(Head(idents), order[Head(idents)])

RECURSIVE AllEntries(_, _)
\* for (initName in databaseRegistry) for (instName in ...): every pair,
\* in the order in which JavaScript enumerates the two objects' keys
AllEntries(idents, order) ==
    IF idents = <<>> THEN <<>>
    ELSE PairsOf(Head(idents), order[Head(idents)]) \o AllEntries(Tail(idents), order)

NoRequest == Request("none", "", "", "", EmptyObj)

\* stats as it would be if it were timed and counted like the operations
statsCounted ==
    LET c == nCalls + 1
        names == AllEntries(identOrder, pathOrder)
    IN
    /\ nCalls < MaxCalls
    /\ nCalls' = c
    /\ instanceNames' = names
    /\ requestStats' = [requestStats EXCEPT !["total"] = @ + 1]
    /\ last' = [NewCall(c, [NoRequest EXCEPT !.op = "stats"]) EXCEPT
                   !.status = "returned", !.cbCount = 1,
                   !.response = <<JSONstringify([requestStats |-> requestStats',
                                                 instanceNames |-> names])>>]
    /\ UNCHANGED <<identOrder, pathOrder, registry, started, db,
                   stores, pending, initCalls>>

\* stats, lines 446-459
stats ==
    LET c == nCalls + 1
        names == AllEntries(identOrder, pathOrder)
    IN
    /\ nCalls < MaxCalls
    /\ nCalls' = c
    /\ instanceNames' = names
    /\ last' = [NewCall(c, [NoRequest EXCEPT !.op = "stats"]) EXCEPT
                   !.status = "returned", !.cbCount = 1,
                   !.response = <<JSONstringify([requestStats |-> requestStats,
                                                 instanceNames |-> names])>>]
    /\ UNCHANGED <<identOrder, pathOrder, registry, requestStats, started, db,
                   stores, pending, initCalls>>

\* the response of instanceStats reads these of the entry, lines 466-498
InstanceReport(ident, path) ==
    LET e == registry[<<ident, path>>]
    IN [serviceName |-> ident, filename |-> path, requestStats |-> e.stats,
        count |-> Cardinality(DOMAIN stores[e.instance].users.docs)]

\* instanceStats, lines 463-500: neither miss returns after its callback(null)
instanceStats(ident, path) ==
    LET c == nCalls + 1
        call == NewCall(c, [NoRequest EXCEPT !.op = "instanceStats",
                                             !.ident = ident, !.path = path])
    IN
    /\ nCalls < MaxCalls
    /\ nCalls' = c
    /\ IF ident \notin Range(identOrder)
       THEN \* line 463 calls back, line 464 reads a property of undefined
            last' = [call EXCEPT !.status = "thrown", !.error = "TypeError",
                                 !.cbCount = 1]
       ELSE IF path \notin Range(pathOrder[ident])
       THEN \* line 464 calls back, line 466 reads a property of undefined
            last' = [call EXCEPT !.status = "thrown", !.error = "TypeError",
                                 !.cbCount = 1]
       ELSE last' = [call EXCEPT !.status = "returned", !.cbCount = 1,
                        !.inst = registry[<<ident, path>>].instance,
                        !.response = <<JSONstringify(InstanceReport(ident, path))>>]
    /\ UNCHANGED <<identOrder, pathOrder, registry, requestStats, instanceNames,
                   started, db, stores, pending, initCalls>>

\* shutdown as it would be if it returned after the first close
ClosedByFirstOnly(entries) ==
    IF entries = <<>> THEN <<>> ELSE <<registry[entries[1]].instance>>

\* the instances that shutdown closes, in order: lines 504-512
ClosedBy(entries) == [n \in DOMAIN entries |-> registry[entries[n]].instance]

\* how often instance i occurs in the sequence
Occurrences(seq, i) == Cardinality({n \in DOMAIN seq : seq[n] = i})

\* shutdown, lines 503-514
shutdown ==
    LET c == nCalls + 1
        closed == ClosedBy(AllEntries(identOrder, pathOrder))
    IN
    /\ nCalls < MaxCalls
    /\ nCalls' = c
    /\ stores' = [i \in DOMAIN stores |->
                    [stores[i] EXCEPT !.closeCalls = @ + Occurrences(closed, i)]]
    /\ last' = [NewCall(c, [NoRequest EXCEPT !.op = "shutdown"]) EXCEPT
                   !.status = "returned", !.cbCount = Len(closed),
                   !.closed = closed]
    /\ UNCHANGED <<identOrder, pathOrder, registry, requestStats, instanceNames,
                   started, db, pending, initCalls>>

(***************************************************************************)
(* The initial state and the specifications.                               *)
(***************************************************************************)
Init ==
    /\ identOrder = <<>>
    /\ pathOrder = [m \in Idents |-> <<>>]
    /\ registry = [k \in Keys |-> NoEntry]
    /\ requestStats = ZeroStats
    /\ instanceNames = <<>>
    /\ started = 0
    /\ db = [m \in Idents |-> 0]
    /\ stores = <<>>
    /\ pending = EmptyObj
    /\ nCalls = 0
    /\ initCalls = [k \in Keys |-> 0]
    /\ last = [NewCall(0, NoRequest) EXCEPT !.status = "none"]

\* the parameters that the callers of the model pass
NumId(n) == [type |-> "number", num |-> n, str |-> ""]
StrId(t) == [type |-> "string", num |-> 0, str |-> t]

AllUsers == Obj(EmptyObj)
ThorAge31 == Obj(("$loki" :> 1) @@ ("age" :> 31))

UpdateObjs == {ThorAge31,
               Obj(("$loki" :> 2) @@ ("tags" :> "hair") @@ ("meta" :> "caller")),
               Str(("$loki" :> 1) @@ ("tags" :> "hammer")),
               Obj(("$loki" :> 9) @@ ("age" :> 31)),
               BadStr}
NewUser == Obj(("$loki" :> 0) @@ ("age" :> 25) @@ ("meta" :> "caller"))
ThorDoc == Obj(("$loki" :> 1) @@ ("age" :> 35))

\* the (module, filename) pairs that the callers name
SpecKeys == {<<"A", "p1">>, <<"A", "p2">>, <<"B", "p1">>}

(***************************************************************************)
(* Spec: the registry, the statistics and the lifecycle, over several      *)
(* (module, filename) pairs, with two kinds of operation.                  *)
(***************************************************************************)
Next ==
    \/ get("A", "p1", "users", NumId(1))
    \/ \E k \in SpecKeys : find(k[1], k[2], "users", AllUsers)
    \/ \E c \in DOMAIN pending : InitCallback(c)
    \/ stats
    \/ \E k \in SpecKeys : instanceStats(k[1], k[2])
    \/ shutdown

Spec == Init /\ [][Next]_vars

(***************************************************************************)
(* SpecOps: the nine operations against one (module, filename) pair.       *)
(***************************************************************************)
NextOps ==
    \/ nCalls < MaxOps /\ get("A", "p1", "users", StrId("2"))
    \/ nCalls < MaxOps /\ find("A", "p1", "users", AllUsers)
    \/ nCalls < MaxOps /\ insert("A", "p1", "users", NewUser)
    \/ nCalls < MaxOps /\ update("A", "p1", "users", ThorAge31)
    \/ nCalls < MaxOps /\ remove("A", "p1", "users", ThorDoc)
    \/ nCalls < MaxOps /\ transform("A", "p1", "users", "goddesses", Str("AgeFilter" :> 99), "undefined")
    \/ nCalls < MaxOps /\ transformRaw("A", "p1", "users", Str("type" :> "find"), Undefined, "true")
    \/ nCalls < MaxOps /\ dynamicView("A", "p1", "users", "Youngsters", "", Undefined)
    \/ nCalls < MaxOps /\ dynamicViewTransform("A", "p1", "users", "Youngsters", "",
                                              Undefined, Str("type" :> "limit"))
    \/ \E c \in DOMAIN pending : InitCallback(c)

SpecOps == Init /\ [][NextOps]_vars

(***************************************************************************)
(* SpecUpdate: update with every kind of payload, between inserts,         *)
(* removes and reads of the same collection.                               *)
(***************************************************************************)
NextUpdate ==
    \/ nCalls < MaxOps /\ \E o \in UpdateObjs : update("A", "p1", "users", o)
    \/ nCalls < MaxOps /\ insert("A", "p1", "users", NewUser)
    \/ nCalls < MaxOps /\ remove("A", "p1", "users", ThorDoc)
    \/ nCalls < MaxOps /\ get("A", "p1", "users", NumId(1))
    \/ \E c \in DOMAIN pending : InitCallback(c)

SpecUpdate == Init /\ [][NextUpdate]_vars

(***************************************************************************)
(* SpecInsert: insert with every kind of payload, and reads of what it     *)
(* stored.                                                                 *)
(***************************************************************************)
InsertObjs == {NewUser,
               Obj("age" :> 40),
               Obj(("$loki" :> 5) @@ ("age" :> 41)),
               Str(("$loki" :> 0) @@ ("tags" :> "runes")),
               BadStr}

NextInsert ==
    \/ nCalls < MaxOps /\ \E o \in InsertObjs : insert("A", "p1", "users", o)
    \/ nCalls < MaxOps /\ \E n \in {3, 4} : get("A", "p1", "users", NumId(n))
    \/ nCalls < MaxOps /\ remove("A", "p1", "users", ThorDoc)
    \/ \E c \in DOMAIN pending : InitCallback(c)

SpecInsert == Init /\ [][NextInsert]_vars

(***************************************************************************)
(* SpecMissing: requests that name an initializer module which require()   *)
(* cannot resolve, next to requests that name one it can.                  *)
(***************************************************************************)
NextMissing ==
    \/ \E p \in Paths : find(MissingModule, p, "users", AllUsers)
    \/ insert(MissingModule, "p1", "users", NewUser)
    \/ \E k \in {<<"A", "p1">>, <<"B", "p1">>} : find(k[1], k[2], "users", AllUsers)
    \/ \E c \in DOMAIN pending : InitCallback(c)
    \/ stats
    \/ \E p \in Paths : instanceStats(MissingModule, p)

SpecMissing == Init /\ [][NextMissing]_vars

(***************************************************************************)
(* SpecParse: operations whose serialized parameter JSON.parse rejects,    *)
(* next to operations whose parameters are well formed.                    *)
(***************************************************************************)
NextParse ==
    \/ nCalls < MaxOps /\ \E q \in {AllUsers, BadStr} : find("A", "p1", "users", q)
    \/ nCalls < MaxOps /\ \E t \in {Str("type" :> "find"), BadStr} :
                              transformRaw("A", "p1", "users", t, Undefined, "true")
    \/ nCalls < MaxOps /\ \E t \in {Str("AgeFilter" :> 99), BadStr} :
                              transform("A", "p1", "users", "goddesses", t, "undefined")
    \/ nCalls < MaxOps /\ \E t \in {Undefined, BadStr} :
                              dynamicView("A", "p1", "users", "Youngsters", "", t)
    \/ nCalls < MaxOps /\ remove("A", "p1", "users", BadStr)
    \/ \E c \in DOMAIN pending : InitCallback(c)

SpecParse == Init /\ [][NextParse]_vars

(***************************************************************************)
(* SpecPairs: writes and reads against several (module, filename) pairs.   *)
(***************************************************************************)
NextPairs ==
    \/ nCalls < MaxOps /\ \E k \in SpecKeys : insert(k[1], k[2], "users", NewUser)
    \/ nCalls < MaxOps /\ \E k \in SpecKeys : get(k[1], k[2], "users", NumId(3))
    \/ \E c \in DOMAIN pending : InitCallback(c)

SpecPairs == Init /\ [][NextPairs]_vars

(***************************************************************************)
(* SpecView: dynamic views with and without a named transform.             *)
(***************************************************************************)
ViewTransformNames == {"", "goddesses"}
ViewParams == {Undefined, Str("AgeFilter" :> 99)}

NextView ==
    \/ nCalls < MaxOps /\ \E t \in ViewTransformNames : \E q \in ViewParams :
          dynamicView("A", "p1", "users", "Youngsters", t, q)
    \/ nCalls < MaxOps /\ \E t \in ViewTransformNames : \E r \in {Undefined, Str("type" :> "limit")} :
          dynamicViewTransform("A", "p1", "users", "Youngsters", t, Undefined, r)
    \/ nCalls < MaxOps /\ dynamicView("A", "p1", "users", "Elders", "", Undefined)
    \/ \E c \in DOMAIN pending : InitCallback(c)

SpecView == Init /\ [][NextView]_vars

(***************************************************************************)
(* Properties.                                                             *)
(***************************************************************************)
OpNames == {"get", "find", "insert", "update", "remove", "transform",
            "transformRaw", "dynamicView", "dynamicViewTransform"}

Registered == {k \in Keys : registry[k].present}

RECURSIVE SumTotals(_)
SumTotals(S) ==
    IF S = {} THEN 0
    ELSE LET k == CHOOSE x \in S : TRUE
         IN registry[k].stats["total"] + SumTotals(S \ {k})

\* C1: for every (module, filename) pair the initializer's init is invoked
\* at most once, also for requests made while the first construction is
\* pending.
C1_InitAtMostOncePerKey == \A k \in Keys : initCalls[k] <= 1

\* C2: once no operation is outstanding, the global totalRequests equals
\* the sum of totalRequests over all registry entries.
C2_GlobalTotalIsSumOfEntries ==
    DOMAIN pending = {} => requestStats["total"] = SumTotals(Keys)

\* C3: a completed operation adds exactly one to its kind's counter and to
\* totalRequests, in the global bucket and in the bucket of the entry it
\* names, and changes no other request counter of either.
C3_OneIncrementPerOperation ==
    [][(last'.op \in OpNames /\ last'.status = "returned") =>
        LET k == <<last'.ident, last'.path>>
            added(f) == IF f = "total" \/ f = StatName(last'.op) THEN 1 ELSE 0
        IN \A f \in StatFields :
              /\ requestStats'[f] = requestStats[f] + added(f)
              /\ registry'[k].stats[f] = registry[k].stats[f] + added(f)]_vars

\* C4: no request counter, global or of a registered pair, ever decreases
\* or is reset.
C4_CountersNeverDecrease ==
    [][/\ \A f \in StatFields : requestStats'[f] >= requestStats[f]
       /\ \A k \in Registered :
             /\ registry'[k].present
             /\ \A f \in StatFields :
                   registry'[k].stats[f] >= registry[k].stats[f]]_vars

\* C5: stats and instanceStats change no request counter and no registry
\* entry, report the counters as they are, and so report the same counters
\* when called twice in a row.
C5_StatsCallsReadOnly ==
    [][(last'.op \in {"stats", "instanceStats"}) =>
        /\ requestStats' = requestStats
        /\ registry' = registry
        /\ identOrder' = identOrder
        /\ pathOrder' = pathOrder
        /\ (last'.op = "stats" =>
               last'.response[1].v.requestStats = requestStats)
        /\ (last'.op = "instanceStats" /\ last'.status = "returned" =>
               last'.response[1].v.requestStats
                   = registry[<<last'.ident, last'.path>>].stats)
        /\ (last.op = last'.op /\ last.ident = last'.ident /\ last.path = last'.path
               => last'.response = last.response)]_vars

C5_Witness ==
    /\ last.op = "instanceStats"
    /\ last.status = "returned"
    /\ last.response[1].v.requestStats["total"] = 2
    /\ Cardinality(Registered) = 2

\* C6: instanceStats for a pair that is not registered calls back exactly
\* once, with nothing, and raises no error.
C6_LookupMissIsSilent ==
    (last.op = "instanceStats" /\ <<last.ident, last.path>> \notin Registered) =>
        /\ last.cbCount = 1
        /\ last.response = <<>>
        /\ last.status = "returned"

C8_EmptyShutdownReportsCompletion ==
    (last.op = "shutdown" /\ Registered = {}) =>
        /\ last.status = "returned"
        /\ last.cbCount >= 1

\* C9: update stores, for the record that the payload identifies, the
\* payload's value for every property of the payload except meta and the
\* record's previous value for every other property, and changes no other
\* record of the collection.
C9_UpdateMergeLaw ==
    [][(last'.op = "update" /\ last'.status = "returned") =>
        LET p == last'.a.obj.v
            id == p["$loki"]
            before == seedDatabase(stores[last'.inst]).users.docs
            after == stores'[last'.inst].users.docs
        IN /\ id \in DOMAIN before
           /\ DOMAIN after = DOMAIN before
           /\ \A f \in DOMAIN p \ {"meta"} :
                 f \in DOMAIN after[id] /\ after[id][f] = p[f]
           /\ \A f \in DOMAIN before[id] \ (DOMAIN p \ {"meta"}) :
                 f \in DOMAIN after[id] /\ after[id][f] = before[id][f]
           /\ DOMAIN after[id] = DOMAIN before[id] \cup (DOMAIN p \ {"meta"})
           /\ \A j \in DOMAIN before \ {id} : after[j] = before[j]]_vars

C9_Witness ==
    /\ last.op = "update"
    /\ last.status = "returned"
    /\ last.a.obj = ThorAge31
    /\ stores[last.inst].users.docs[1]["age"] = 31
    /\ stores[last.inst].users.docs[1]["tags"] = "hammer"
    /\ 2 \in DOMAIN stores[last.inst].users.docs

\* C10: an update whose payload identifies no record fails with an error
\* that reaches the caller, and changes neither the records of a collection
\* nor a stats counter.
C10_MissingRecordReported ==
    [][(last'.op = "update" /\ last'.error = "RecordNotFound") =>
        /\ last'.status = "thrown"
        /\ requestStats' = requestStats
        /\ \A k \in Keys : registry'[k].stats = registry[k].stats
        /\ \A i \in DOMAIN stores :
              stores'[i].users = IF i = last'.inst
                                 THEN seedDatabase(stores[i]).users
                                 ELSE stores[i].users]_vars

\* C11: insert hands the store the payload without a $loki that is 0 and
\* without meta, every other property as the caller gave it, a $loki other
\* than 0 included; the record then stored carries the identity that the
\* store assigned, which is not 0, and the payload's properties.
C11_InsertStripsZeroIdAndMeta ==
    [][(last'.op = "insert" /\ last'.error \in {"none", "StoreRejected"}
          /\ last'.status # "pending") =>
        LET obj == last'.a.obj.v
            gone == {"meta"} \cup (IF "$loki" \in DOMAIN obj /\ obj["$loki"] = 0
                                    THEN {"$loki"} ELSE {})
            before == seedDatabase(stores[last'.inst]).users
            after == stores'[last'.inst].users
        IN /\ Len(last'.passed) = 2
           /\ DOMAIN last'.passed[2] = DOMAIN obj \ gone
           /\ \A f \in DOMAIN obj \ gone : last'.passed[2][f] = obj[f]
           /\ (last'.error = "none" =>
                 LET id == before.maxId + 1
                 IN /\ id # 0
                    /\ DOMAIN after.docs = DOMAIN before.docs \cup {id}
                    /\ id \notin DOMAIN before.docs
                    /\ after.docs[id]["$loki"] = id
                    /\ \A f \in DOMAIN obj \ (gone \cup {"$loki"}) :
                          after.docs[id][f] = obj[f]
                    /\ \A j \in DOMAIN before.docs : after.docs[j] = before.docs[j])
           /\ (last'.error = "StoreRejected" =>
                 /\ "$loki" \in DOMAIN obj /\ obj["$loki"] # 0
                 /\ after = before)]_vars

C11_Witness ==
    /\ last.op = "insert"
    /\ last.status = "returned"
    /\ last.a.obj = NewUser
    /\ last.passed = <<"insert", "age" :> 25>>
    /\ 4 \in DOMAIN stores[last.inst].users.docs
    /\ stores[last.inst].users.docs[4] =
          ("$loki" :> 4) @@ ("meta" :> "store") @@ ("age" :> 25)

C13_MalformedInputHasNoEffect ==
    [][last'.error = "MalformedInput" =>
        /\ last'.status = "thrown"
        /\ last'.init = 0
        /\ initCalls' = initCalls
        /\ registry' = registry
        /\ stores' = stores
        /\ requestStats' = requestStats]_vars

\* C14: an operation that fails delivers its error to its caller, on a
\* registered key and inside the initializer's completion callback alike.
C14_ErrorsReachCaller ==
    (last.op \in OpNames /\ last.error # "none") => last.status = "thrown"

\* C15: an operation against one (module, filename) pair changes neither
\* the registry entry, with its counters, nor the database of any other
\* registered pair.
C15_OtherPairsUntouched ==
    [][(last'.op \in OpNames /\ last'.status # "pending") =>
        \A k \in Registered \ {<<last'.ident, last'.path>>} :
           /\ registry'[k] = registry[k]
           /\ stores'[registry[k].instance] = stores[registry[k].instance]]_vars

\* C16: the instance list that stats returns holds every registered
\* (module, filename) pair exactly once and nothing else: no pair whose
\* construction is still pending, whose module could not be resolved or
\* that was never requested.
C16_StatsListsRegisteredPairs ==
    [][last'.op = "stats" =>
        LET names == last'.response[1].v.instanceNames
        IN /\ Range(names) = Registered
           /\ Len(names) = Cardinality(Registered)
           /\ instanceNames' = names
           /\ \A c \in DOMAIN pending :
                 ~registry[<<pending[c].ident, pending[c].path>>].present
                    => <<pending[c].ident, pending[c].path>> \notin Range(names)]_vars

C16_Witness ==
    /\ last.op = "stats"
    /\ last.response[1].v.instanceNames = <<<<"A", "p1">>>>
    /\ MissingModule \in Range(identOrder)
    /\ \E c \in DOMAIN pending : pending[c].ident = "B"
    /\ ~registry[<<"B", "p1">>].present

\* C17: a completed dynamicView on an existing view that was given the
\* name of a registered transform has branched the view through the
\* transform of that name with the given parameters, and one that was
\* given no transform name has read the view's data and used no transform.
C17_ViewBranchesThroughNamedTransform ==
    (/\ last.op = "dynamicView"
     /\ last.status # "pending"
     /\ last.a.viewname \in ViewNames) =>
        LET t == last.a.transformName
            params == IF Truthy(last.a.transformParams)
                      THEN <<last.a.transformParams.v>> ELSE <<>>
        IN /\ last.error = "none"
           /\ last.passed = IF t = "" THEN <<"data">>
                            ELSE <<"branchResultset", t, params>>

\* C18: an operation called for a pair that has a registry entry is over
\* when the exported function returns: it has invoked its caller's
\* callback once, or has thrown; it is not left pending and no
\* initializer is invoked for it.
C18_RegisteredKeyCompletesAtOnce ==
    [][(/\ nCalls' = nCalls + 1
        /\ last'.op \in OpNames
        /\ registry[<<last'.ident, last'.path>>].present) =>
           /\ last'.id = nCalls'
           /\ last'.status \in {"returned", "thrown"}
           /\ (last'.status = "returned" <=> last'.cbCount = 1)
           /\ (last'.status = "returned" <=> last'.error = "none")
           /\ last'.init = 0
           /\ initCalls' = initCalls
           /\ pending' = pending
           /\ Len(stores') = Len(stores)]_vars

C18_Witness ==
    /\ last.op = "update"
    /\ last.id = 3
    /\ last.status = "returned"
    /\ last.cbCount = 1
    /\ last.init = 0
    /\ initCalls[<<"A", "p1">>] = 1
    /\ DOMAIN pending = {}
    /\ Len(stores) = 1

\* C19: an operation called after shutdown has closed the instance of its
\* pair's entry is not run against that closed instance.
C19_NoOperationOnClosedInstance ==
    [][(/\ nCalls' = nCalls + 1
        /\ last'.op \in OpNames
        /\ last'.inst # 0) =>
           stores[last'.inst].closeCalls = 0]_vars

\* C20: close is invoked at most once on any database instance, however
\* many times shutdown is called.
C20_CloseAtMostOncePerInstance ==
    \A i \in DOMAIN stores : stores[i].closeCalls <= 1

\* C21: the order in which stats lists the registered pairs and shutdown
\* closes their instances is the order in which the pairs were first
\* registered: a pair registered for the first time comes last in it.
C21_IterationInRegistrationOrder ==
    [][/\ \A k \in Keys :
            (~registry[k].present /\ registry'[k].present) =>
                AllEntries(identOrder', pathOrder')
                    = Append(AllEntries(identOrder, pathOrder), k)
       /\ (\A k \in Keys : registry'[k].present = registry[k].present) =>
                AllEntries(identOrder', pathOrder')
                    = AllEntries(identOrder, pathOrder)
       /\ (last'.op = "stats" =>
                last'.response[1].v.instanceNames
                    = AllEntries(identOrder, pathOrder))
       /\ (last'.op = "shutdown" =>
                last'.closed = ClosedBy(AllEntries(identOrder, pathOrder)))]_vars

\* C22: the elapsed time that a completed operation adds to the time
\* accumulators is measured from the start instant of that operation.
C22_TimedFromOwnStart ==
    (last.op \in OpNames /\ last.status = "returned") => last.timedFrom = last.id

\* C23: an operation that has ended and whose body met no error has
\* invoked its caller's callback exactly once, with no error and the
\* serialized result of its store call, after its request was counted.
C23_CallbackOnceAfterStats ==
    [][(/\ last'.op \in OpNames
        /\ last'.status # "pending"
        /\ last'.error = "none") =>
           LET out == Body(last', seedDatabase(stores[last'.inst]))
           IN /\ last'.status = "returned"
              /\ last'.cbCount = 1
              /\ out.error = "none"
              /\ last'.response = <<JSONstringify(out.result)>>
              /\ requestStats'["total"] = requestStats["total"] + 1
              /\ last'.seenTotal = requestStats'["total"]
              /\ (last'.id \in DOMAIN pending => last'.id \notin DOMAIN pending')]_vars

C23_Witness ==
    /\ last.op = "insert"
    /\ last.status = "returned"
    /\ last.id = 1
    /\ nCalls = 2
    /\ last.cbCount = 1
    /\ last.response # <<>>
    /\ last.seenTotal = 2
    /\ requestStats["total"] = 2
    /\ DOMAIN pending = {}
====
